---- MODULE Spec2Model ----
(***************************************************************************)
(* The London Airbnb price dashboard (app.py): a table loaded once from a  *)
(* CSV file, three filter controls, and five chart callbacks that each     *)
(* call filter_df on the current control values.  update_avg also groups   *)
(* the filtered rows and takes the mean price of every group.              *)
(*                                                                         *)
(* A frame is modelled by the sequence of its index labels: filter_df      *)
(* works on a copy of df and boolean masks keep the labels of the rows     *)
(* they retain, so a row of a filtered frame is df[i] for its label i.     *)
(***************************************************************************)
EXTENDS Integers, Sequences, FiniteSets, TLC

\* Longest table the model loads.
MaxRows == 2

Range(s) == {s[i] : i \in DOMAIN s}

(***************************************************************************)
(* Python values that reach the callbacks as control values.               *)
(***************************************************************************)
PyNone == [type |-> "NoneType"]
PyStr(s) == [type |-> "str", str |-> s]
PyList(S) == [type |-> "list", items |-> S]

\* A guard written "is not None": an empty list passes it.
truthy_is_not_none(v) == v.type # "NoneType"

\* bool(v), as the "if room_types:" tests take it.
truthy(v) ==
    CASE v.type = "NoneType" -> FALSE
      [] v.type = "list" -> v.items # {}
      [] v.type = "str" -> v.str # ""

(***************************************************************************)
(* The table.  A missing cell (NaN) is the marker below; labels are        *)
(* listed in the order sorted() and the category index give them.          *)
(***************************************************************************)
NaN == "NaN"
RoomOrder == <<"Entire home/apt", "Private room">>
TimeOrder == <<"weekdays", "weekends">>
DistOrder == <<"Far", "Near">>

Listing(rt, tp, db, sb, rs) ==
    [room_type |-> rt, time_period |-> tp, distance_bucket |-> db,
     satisfaction_bucket |-> sb, realSum |-> rs]

RowPool ==
    { Listing("Entire home/apt", "weekdays", "Near", "High", 100),
      Listing("Private room", "weekdays", "Near", NaN, 50),
      Listing("Entire home/apt", "weekends", "Far", "High", 200),
      Listing("Entire home/apt", "weekdays", "Near", "High", 200) }

Datasets == UNION {[1..n -> RowPool] : n \in 0..MaxRows}

\* Major versions of the pandas library the unpinned import can resolve to.
PandasVersions == {2, 3}

Charts == {"price-distance", "avg-price-distance", "attr-price",
           "box-distance", "price-hist"}

VARIABLES
    df,        \* the module-level table
    loaded,    \* the table as read_csv returned it (never written after Init)
    pandas,    \* the major version of the imported pandas
    room,      \* value of room-type-filter
    timep,     \* value of time-period-filter
    sat,       \* value of satisfaction-filter
    pending,   \* charts whose callback has been triggered and has not run yet
    fig        \* chart -> the figure its callback returned for the current values

vars == <<df, loaded, pandas, room, timep, sat, pending, fig>>

(***************************************************************************)
(* Column helpers.                                                         *)
(***************************************************************************)
Sorted(S, order) == SelectSeq(order, LAMBDA x : x \in S)

\* df[col].unique() without the missing cells.
unique(data, col) == {data[i][col] : i \in DOMAIN data} \ {NaN}

\* df[col].astype("category"): the categories are the sorted labels of df.
categories(data, col, order) == Sorted(unique(data, col), order)

\* Series.astype(str) on one cell.  Up to pandas 2 a missing cell becomes the
\* text "nan"; pandas 3 casts to its string dtype and keeps it missing.
astype_str(ver, x) == IF x = NaN /\ ver < 3 THEN "nan" ELSE x

room_type_options(data) == Range(Sorted(unique(data, "room_type"), RoomOrder))
time_period_options(data) == Range(categories(data, "time_period", TimeOrder))
\* dropna() leaves the labels, and str() of a label is the label.
sat_bucket_options(data) == unique(data, "satisfaction_bucket")

(***************************************************************************)
(* filter_df                                                               *)
(***************************************************************************)
Frame(idx) == [error |-> FALSE, index |-> idx]
TypeError == [error |-> TRUE, index |-> <<>>]

\* df.copy(): every row, labels 1..n.
copy(data) == Frame([i \in 1..Len(data) |-> i])

\* d[d[col].isin(values)]; isin raises TypeError unless values is list-like.
isin(data, d, col, values) ==
    IF d.error \/ values.type # "list"
    THEN TypeError
    ELSE Frame(SelectSeq(d.index, LAMBDA i : data[i][col] \in values.items))

\* d[d[col].astype(str) == value]; a missing cell, and None, equal nothing.
eq_str(data, ver, d, col, value) ==
    IF d.error
    THEN TypeError
    ELSE Frame(SelectSeq(d.index,
                 LAMBDA i : /\ value.type = "str"
                            /\ astype_str(ver, data[i][col]) # NaN
                            /\ astype_str(ver, data[i][col]) = value.str))

room_step(data, d, room_types) ==
    IF truthy(room_types) THEN isin(data, d, "room_type", room_types) ELSE d

\* filter_df without its time-period step.
time_step_skipped(data, d, time_periods) == d

time_step(data, d, time_periods) ==
    IF truthy(time_periods) THEN isin(data, d, "time_period", time_periods) ELSE d

\* The satisfaction step without the "All" sentinel.
sat_step_no_sentinel(data, ver, d, s) ==
    eq_str(data, ver, d, "satisfaction_bucket", s)

sat_step(data, ver, d, s) ==
    IF s # PyStr("All") THEN eq_str(data, ver, d, "satisfaction_bucket", s) ELSE d

filter_df(data, ver, room_types, time_periods, s) ==
    sat_step(data, ver,
        time_step(data, room_step(data, copy(data), room_types), time_periods), s)

\* filter_df on df itself, converting the column where it stands.
df_after_filter_stringified(data, d) ==
    [i \in DOMAIN data |->
        [data[i] EXCEPT !.satisfaction_bucket = IF @ = NaN THEN "nan" ELSE @]]

\* filter_df on df itself, keeping only the rows it returns.
df_after_filter_narrowed(data, d) ==
    [k \in 1..Len(d.index) |-> data[d.index[k]]]

\* The module-level df once filter_df has returned d: the function narrows its
\* own copy, so df is what it was.
df_after_filter(data, d) == data

(***************************************************************************)
(* The aggregation of update_avg.                                          *)
(***************************************************************************)
RECURSIVE sum_realSum(_, _)
sum_realSum(data, idx) ==
    IF idx = <<>> THEN 0
    ELSE data[Head(idx)].realSum + sum_realSum(data, Tail(idx))

\* The sum in place of the mean.
mean_as_sum(data, idx) ==
    [num |-> sum_realSum(data, idx), den |-> IF idx = <<>> THEN 0 ELSE 1]

\* Series.mean(): sum over count, kept as the exact fraction; 0/0 is NaN.
mean(data, idx) == [num |-> sum_realSum(data, idx), den |-> Len(idx)]

key_of(r) ==
    [distance_bucket |-> r.distance_bucket, room_type |-> r.room_type,
     time_period |-> r.time_period]

Pos(order, x) == CHOOSE i \in 1..Len(order) : order[i] = x

key_rank(k) ==
    (Pos(DistOrder, k.distance_bucket) - 1) * Len(RoomOrder) * Len(TimeOrder)
      + (Pos(RoomOrder, k.room_type) - 1) * Len(TimeOrder)
      + Pos(TimeOrder, k.time_period)

\* sort=True: the group keys in lexicographic order.
sort_keys(S) ==
    [n \in 1..Cardinality(S) |->
        CHOOSE k \in S : Cardinality({j \in S : key_rank(j) < key_rank(k)}) = n - 1]

\* The default of groupby's observed parameter, which line 295 leaves out.
observed_default(ver) == ver >= 3

\* The result index.  With observed=False the categorical groupers contribute
\* every category of df, the plain column its values in d.
group_keys(data, ver, idx) ==
    IF observed_default(ver)
    THEN {key_of(data[i]) : i \in Range(idx)}
    ELSE {[distance_bucket |-> a, room_type |-> b, time_period |-> c] :
            a \in {data[i].distance_bucket : i \in Range(idx)},
            b \in Range(categories(data, "room_type", RoomOrder)),
            c \in Range(categories(data, "time_period", TimeOrder))}

groupby_mean(data, ver, idx) ==
    LET keys == sort_keys(group_keys(data, ver, idx))
    IN  [n \in 1..Len(keys) |->
            [distance_bucket |-> keys[n].distance_bucket,
             room_type |-> keys[n].room_type,
             time_period |-> keys[n].time_period,
             avg_price |-> mean(data,
                 SelectSeq(idx, LAMBDA i : key_of(data[i]) = keys[n]))]]

(***************************************************************************)
(* The controls and the callbacks.                                         *)
(***************************************************************************)
NoFig == [status |-> "none", d |-> <<>>, grp |-> <<>>]
Figure(d, grp) ==
    IF d.error THEN [status |-> "error", d |-> <<>>, grp |-> <<>>]
    ELSE [status |-> "ok", d |-> d.index, grp |-> grp]

\* update_hist declared without the satisfaction control.
Inputs_hist_without_sat(c) ==
    IF c = "price-hist" THEN {"room-type-filter", "time-period-filter"}
    ELSE {"room-type-filter", "time-period-filter", "satisfaction-filter"}

\* The Input declarations of a chart's @app.callback.
Inputs(c) == {"room-type-filter", "time-period-filter", "satisfaction-filter"}

Listening(ctl) == {c \in Charts : ctl \in Inputs(c)}

\* Values the controls hand to the callbacks.  A cleared dropdown gives None
\* (or the empty list when multi=True); a Checklist always gives a list.  The
\* values are not checked against the options, so any label can arrive.
RoomInputs == {PyNone} \cup {PyList(S) : S \in SUBSET Range(RoomOrder)}
TimeInputs == {PyList(S) : S \in SUBSET Range(TimeOrder)}
SatInputs == {PyNone} \cup {PyStr(s) : s \in {"All", "High", "nan"}}

Init ==
    /\ df \in Datasets
    /\ loaded = df
    /\ pandas \in PandasVersions
    /\ room = PyList(room_type_options(df))
    /\ timep = PyList(time_period_options(df))
    /\ sat = PyStr("All")
    /\ pending = Charts
    /\ fig = [c \in Charts |-> NoFig]

\* A control takes a new value: every callback that lists it as an Input is
\* triggered, and the figure it last returned is out of date.
Trigger(ctl) ==
    /\ pending' = pending \cup Listening(ctl)
    /\ fig' = [c \in Charts |-> IF c \in Listening(ctl) THEN NoFig ELSE fig[c]]
    /\ UNCHANGED <<df, loaded, pandas>>

change_room ==
    \E v \in RoomInputs \ {room} :
        /\ room' = v
        /\ UNCHANGED <<timep, sat>>
        /\ Trigger("room-type-filter")

change_time ==
    \E v \in TimeInputs \ {timep} :
        /\ timep' = v
        /\ UNCHANGED <<room, sat>>
        /\ Trigger("time-period-filter")

change_sat ==
    \E v \in SatInputs \ {sat} :
        /\ sat' = v
        /\ UNCHANGED <<room, timep>>
        /\ Trigger("satisfaction-filter")

\* A triggered callback runs on the current control values.
Serve(c, d, grp) ==
    /\ c \in pending
    /\ pending' = pending \ {c}
    /\ fig' = [fig EXCEPT ![c] = Figure(d, grp)]
    /\ df' = df_after_filter(df, d)
    /\ UNCHANGED <<loaded, pandas, room, timep, sat>>

update_price_dist ==
    LET d == filter_df(df, pandas, room, timep, sat)
    IN  Serve("price-distance", d, <<>>)

update_avg ==
    LET d == filter_df(df, pandas, room, timep, sat)
        grp == IF d.error THEN <<>> ELSE groupby_mean(df, pandas, d.index)
    IN  Serve("avg-price-distance", d, grp)

update_attr ==
    LET d == filter_df(df, pandas, room, timep, sat)
    IN  Serve("attr-price", d, <<>>)

update_box ==
    LET d == filter_df(df, pandas, room, timep, sat)
    IN  Serve("box-distance", d, <<>>)

update_hist ==
    LET d == filter_df(df, pandas, room, timep, sat)
    IN  Serve("price-hist", d, <<>>)

Next ==
    \/ change_room
    \/ change_time
    \/ change_sat
    \/ update_price_dist
    \/ update_avg
    \/ update_attr
    \/ update_box
    \/ update_hist

Spec == Init /\ [][Next]_vars

(***************************************************************************)
(* What the claims speak of.  A chart whose callback has run since the     *)
(* last control change holds a result of filter_df for the current         *)
(* selection (room, timep, sat).  The axis predicates below are written    *)
(* from the description of the filter, row by row over the table as        *)
(* loaded, and do not use the steps of filter_df.                          *)
(***************************************************************************)
Served == {c \in Charts : fig[c].status = "ok"}
Avg == fig["avg-price-distance"]

Labels == [i \in 1..Len(loaded) |-> i]
RowsWhere(P(_)) == SelectSeq(Labels, P)

NonEmptyList(v) == v.type = "list" /\ v.items # {}
EmptyList(v) == v = PyList({})

\* The string forms a cell has in the comparison: none for a cell that stays
\* missing.
StringForms(x) ==
    IF x # NaN THEN {x} ELSE IF pandas < 3 THEN {"nan"} ELSE {}

RoomAxis(i) == NonEmptyList(room) => loaded[i].room_type \in room.items
TimeAxis(i) == NonEmptyList(timep) => loaded[i].time_period \in timep.items
SatAxis(i) ==
    sat # PyStr("All") =>
        sat.type = "str" /\ sat.str \in StringForms(loaded[i].satisfaction_bucket)

Increasing(s) == \A j, k \in DOMAIN s : j < k => s[j] < s[k]

\* C1: with an empty room_types list (an empty time_periods list) the result
\* is the rows that pass the other two axes: the empty axis lets every row
\* through.
C1_EmptySelectionIsUnfiltered ==
    \A c \in Served :
        /\ EmptyList(room) =>
              fig[c].d = RowsWhere(LAMBDA i : TimeAxis(i) /\ SatAxis(i))
        /\ EmptyList(timep) =>
              fig[c].d = RowsWhere(LAMBDA i : RoomAxis(i) /\ SatAxis(i))

\* C1 witness: a callback ran with an empty list on one axis while another
\* axis removed some rows and kept others.
C1_Witness ==
    \E c \in Served :
        /\ EmptyList(room) \/ EmptyList(timep)
        /\ 0 < Len(fig[c].d)
        /\ Len(fig[c].d) < Len(loaded)

\* C2: the result of filter_df is the rows of the table, each at most once and
\* in table order, that satisfy every active axis; nothing else, nothing less.
C2_ResultIsExactlyTheQualifyingRows ==
    \A c \in Served :
        /\ Range(fig[c].d) \subseteq DOMAIN loaded
        /\ Increasing(fig[c].d)
        /\ \A i \in DOMAIN loaded :
              i \in Range(fig[c].d) <=> RoomAxis(i) /\ TimeAxis(i) /\ SatAxis(i)

\* C2 witness: all three axes are active and the result is a proper, non-empty
\* part of the table.
C2_Witness ==
    \E c \in Served :
        /\ NonEmptyList(room) /\ NonEmptyList(timep) /\ sat = PyStr("High")
        /\ 0 < Len(fig[c].d)
        /\ Len(fig[c].d) < Len(loaded)

\* C3: with satisfaction "All" the result is what the room-type and the
\* time-period filters alone leave, rows without a satisfaction bucket included.
C3_AllSentinelSkipsSatisfaction ==
    \A c \in Served :
        sat = PyStr("All") =>
            /\ fig[c].d = RowsWhere(LAMBDA i : RoomAxis(i) /\ TimeAxis(i))
            /\ \A i \in DOMAIN loaded :
                  (loaded[i].satisfaction_bucket = NaN /\ RoomAxis(i) /\ TimeAxis(i))
                      => i \in Range(fig[c].d)

\* C3 witness: "All" is selected, another axis removed a row, and a row
\* without a satisfaction bucket is in the result.
C3_Witness ==
    \E c \in Served :
        /\ sat = PyStr("All")
        /\ Len(fig[c].d) < Len(loaded)
        /\ \E i \in Range(fig[c].d) : loaded[i].satisfaction_bucket = NaN

KeysPresent(d) == {key_of(loaded[i]) : i \in Range(d)}
GroupRows(d, g) ==
    {i \in Range(d) : key_of(loaded[i]) =
        [distance_bucket |-> g.distance_bucket, room_type |-> g.room_type,
         time_period |-> g.time_period]}

\* C4: the aggregation puts out one row for every (distance_bucket, room_type,
\* time_period) combination that occurs in the filtered rows, and no row for
\* a combination without rows.
C4_OneRowPerCombinationPresent ==
    Avg.status = "ok" =>
        /\ Len(Avg.grp) = Cardinality(KeysPresent(Avg.d))
        /\ \A n \in DOMAIN Avg.grp : GroupRows(Avg.d, Avg.grp[n]) # {}

RECURSIVE SumOver(_)
SumOver(S) ==
    IF S = {} THEN 0
    ELSE LET i == CHOOSE x \in S : TRUE
         IN  loaded[i].realSum + SumOver(S \ {i})

\* C5: avg_price of every output row is the mean of realSum over the filtered
\* rows that carry the row's key (their sum over their number); for a group of
\* one row it is that row's realSum.
C5_AvgPriceIsGroupMean ==
    Avg.status = "ok" =>
        \A n \in DOMAIN Avg.grp :
            LET G == GroupRows(Avg.d, Avg.grp[n])
                a == Avg.grp[n].avg_price
            IN  /\ a.num = SumOver(G)
                /\ a.den = Cardinality(G)
                /\ \A i \in G : G = {i} => a = [num |-> loaded[i].realSum, den |-> 1]

\* C5 witness: the aggregation ran on a filtered part of the table and put
\* out a group of two rows with different prices.
C5_Witness ==
    /\ Avg.status = "ok"
    /\ \E n \in DOMAIN Avg.grp :
          /\ Avg.grp[n].avg_price = [num |-> 300, den |-> 2]
          /\ GroupRows(Avg.d, Avg.grp[n]) = {1, 2}

RoomsCarried == {loaded[i].room_type : i \in DOMAIN loaded}
TimesCarried == {loaded[i].time_period : i \in DOMAIN loaded}
BucketsCarried == {loaded[i].satisfaction_bucket : i \in DOMAIN loaded} \ {NaN}

OnlyUnknownValues ==
    \/ NonEmptyList(room) /\ room.items \cap RoomsCarried = {}
    \/ NonEmptyList(timep) /\ timep.items \cap TimesCarried = {}
    \/ sat.type = "str" /\ sat.str # "All" /\ sat.str \notin BucketsCarried

\* C6: filter_df never fails, whatever the selection (values no row carries
\* and None included), and a selection that names only unknown values on an
\* axis gives zero rows.
C6_NoErrorAndUnknownGivesNoRows ==
    \A c \in Charts \ pending :
        /\ fig[c].status = "ok"
        /\ OnlyUnknownValues => fig[c].d = <<>>

\* C7: the table is never changed after load: same rows, same values, same
\* order, in every reachable state.
C7_DatasetNeverChanges == df = loaded

\* C7 witness: callbacks have run, one of them on a selection that removed
\* rows of a table holding a missing satisfaction bucket.
C7_Witness ==
    /\ pending = {}
    /\ \E i \in DOMAIN loaded : loaded[i].satisfaction_bucket = NaN
    /\ \E c \in Served : Len(fig[c].d) < Len(loaded)

\* C8: a change of any of the three controls triggers all five callbacks, and
\* once none is left to run every chart holds filter_df of the one current
\* selection.
C8_EveryControlDrivesAllCharts ==
    [][/\ <<room, timep, sat>>' # <<room, timep, sat>> => pending' = Charts
       /\ pending' = {} =>
              \A c \in Charts :
                  /\ fig'[c].status = "ok"
                  /\ fig'[c].d = filter_df(loaded', pandas', room', timep', sat').index
      ]_vars

\* C8 witness: every control has left its initial value and all five
\* callbacks have run since.
C8_Witness ==
    /\ pending = {}
    /\ Served = Charts
    /\ room # PyList(room_type_options(loaded))
    /\ timep # PyList(time_period_options(loaded))
    /\ sat # PyStr("All")
    /\ \E c \in Charts : fig[c].d # <<>>

\* C9: the filtered rows and the aggregated rows served for a selection are
\* those that the table as loaded gives for that selection, whatever was
\* evaluated before: two runs on the same inputs agree.
C9_OutputDependsOnlyOnDatasetAndSelection ==
    Avg.status = "ok" =>
        LET d == filter_df(loaded, pandas, room, timep, sat)
        IN  /\ Avg.d = d.index
            /\ Avg.grp = groupby_mean(loaded, pandas, d.index)

\* C9 witness: two controls have left their initial values, another callback
\* has already run on this selection, and the aggregation ran on a filtered
\* part of the table and put out a group.
C9_Witness ==
    /\ Avg.status = "ok"
    /\ Avg.grp # <<>>
    /\ Len(Avg.d) < Len(loaded)
    /\ room # PyList(room_type_options(loaded))
    /\ sat # PyStr("All")
    /\ Served \ {"avg-price-distance"} # {}

\* C10: with any satisfaction value other than "All", no row without a
\* satisfaction bucket is in the result.
C10_NoMissingBucketRowWhenFiltering ==
    \A c \in Served :
        sat # PyStr("All") =>
            \A i \in Range(fig[c].d) : loaded[i].satisfaction_bucket # NaN

====
